---- MODULE Spec2Model ----
(***************************************************************************)
(* A model of git::Branch (src/cmake-build-debug/Branch.cpp): the branch   *)
(* operations checkout and executeMerge, and the Branch handle with its    *)
(* cached last commit, over a repository held by the external version      *)
(* control engine (libgit2).  The repository is modelled as far as the     *)
(* engine calls made by Branch.cpp read or write it: the commit graph, the *)
(* branch references, HEAD, the index and the working directory.  Each     *)
(* engine call is an operator named after the call and mapped to the line  *)
(* of Branch.cpp that makes it; its body states the engine's documented    *)
(* behaviour for the arguments Branch.cpp passes.  Two smaller             *)
(* specifications cover the order in which getAllBranches returns the      *)
(* branches (SpecList) and the git_reference handles the Branch objects    *)
(* hold through construction, assignment and destruction (SpecOwn).        *)
(***************************************************************************)
EXTENDS Integers, Sequences, FiniteSets, TLC

\* ----------------------------------------------------------------- bounds

\* The object store holds at most this many commits.
MaxCommits == 3

\* Each concurrent caller makes at most this many calls.
MaxCalls == 1

\* At most this many Branch objects are in memory at a time.
MaxObjects == 3

\* The engine hands out at most this many git_reference handles.
MaxRefHandles == 3

\* ------------------------------------------------------------- vocabulary

Paths == {"f", "g"}

\* A file's content; 0 stands for "no file at this path".
Contents == {0, 1, 2, 3}

\* The tree of the root commit: the one file f.
RootTree == [p \in Paths |-> IF p = "f" THEN 3 ELSE 0]

\* The content a commit made on a branch writes.
Mark(b) == IF b = "main" THEN 1 ELSE 2

\* The contents a commit made on a branch gives a path (0: the commit deletes
\* the path).
CommitContents(b) == {0, Mark(b)}

\* The contents the user writes to a file of the working directory (0: the
\* user deletes the file).
EditContents == {0, 1}

Trees == [Paths -> Contents]

LocalBranches == {"main", "feature"}

\* getAllBranches iterates with GIT_BRANCH_ALL, so remote-tracking branches
\* are Branch handles too.
RemoteBranches == {"origin/main"}

Branches == LocalBranches \cup RemoteBranches

\* A null Branch* argument.
NULL == "null"

\* No Branch handle has been constructed for the branch.
NoHandle == 0

\* The callers of the concurrent specification.
Threads == {1, 2}

\* Points at which an engine call returns an error for a reason outside the
\* model (an I/O error, a locked index file).
FailPoints == {"none", "set_head", "checkout_head"}

\* The places in memory that can hold a Branch object.
Objects == 1..MaxObjects

\* The git_reference handles the engine can hand out.
RefHandles == 1..MaxRefHandles

\* A null git_reference*.
NullRef == 0

\* A place in memory that holds no Branch object.
NoObject == [live |-> FALSE, branch |-> NullRef]

\* ------------------------------------------------------------------ state

VARIABLES
    commits,   \* the object store: commit id i is commits[i] = [parents, tree]
    refs,      \* the reference table: branch name -> commit id
    head,      \* HEAD: [sym |-> TRUE, name |-> b] or [sym |-> FALSE, commit |-> c]
    index,     \* path -> [s0, s1, s2, s3]: the entry of each stage, 0 for none
    wd,        \* the working directory: path -> content
    handles,   \* Branch objects: branch name -> _lastCommit, or NoHandle
    created,   \* per handle, the tip of its branch when it was constructed
    last,      \* the last Branch operation: its arguments, outcome and pre-state
    calls,     \* concurrent callers: thread -> the call it is in and its position
    packed,    \* the branches whose reference is stored in the packed-refs file only
    listing,   \* the vector the last getAllBranches returned, as branch names
    objs,      \* Branch objects in memory: slot -> [live, branch], branch a handle
    heap       \* git_reference handles: handle -> "unused", "live", "freed", "freed_twice"

vars == <<commits, refs, head, index, wd, handles, created, last, calls,
          packed, listing, objs, heap>>

\* The state of the repository and of the calls made on it.
repoVars == <<commits, refs, head, index, wd, handles, created, last, calls>>

\* The state of the Branch objects' memory.
ownVars == <<objs, heap>>

\* The repository as one value, as the engine calls take and return it.
Repo == [commits |-> commits, refs |-> refs, head |-> head, index |-> index, wd |-> wd]

\* ------------------------------------------------------------ the engine

Clean(c) == [s0 |-> c, s1 |-> 0, s2 |-> 0, s3 |-> 0]

CleanIndex(t) == [p \in Paths |-> Clean(t[p])]

SymHead(b) == [sym |-> TRUE, name |-> b, commit |-> 0]

DetachedHead(c) == [sym |-> FALSE, name |-> "", commit |-> c]

\* The commit HEAD resolves to.
HeadCommit(r) == IF r.head.sym THEN r.refs[r.head.name] ELSE r.head.commit

TreeOf(r, c) == r.commits[c].tree

RECURSIVE Ancestors(_, _)
\* A commit and everything reachable from it over parent edges.
Ancestors(cs, c) ==
    {c} \cup UNION {Ancestors(cs, cs[c].parents[i]) : i \in 1..Len(cs[c].parents)}

\* git_merge_base: a best common ancestor, 0 when the histories are unrelated.
MergeBase(cs, a, b) ==
    LET common == Ancestors(cs, a) \cap Ancestors(cs, b)
        best   == {c \in common : \A d \in common \ {c} : c \notin Ancestors(cs, d)}
    IN  IF common = {} THEN 0 ELSE CHOOSE c \in best : \A d \in best : d <= c

IsConflicted(e) == e.s1 # 0 \/ e.s2 # 0 \/ e.s3 # 0

\* git_repository_set_head(repo, refname), refname the name of a Branch's
\* reference: HEAD becomes symbolic when the reference is a local branch and
\* is detached at the reference's commit otherwise.  No reference is written.
git_repository_set_head(r, b) ==
    [r EXCEPT !.head = IF b \in LocalBranches THEN SymHead(b) ELSE DetachedHead(r.refs[b])]

\* What a checkout with strategy GIT_CHECKOUT_SAFE does with one path, given
\* the path's content in the baseline, in the target and in the working
\* directory: nothing when the target does not change the path (a local
\* modification is kept, a missing file is not recreated), an update when the
\* working directory holds the baseline or already the target content, and a
\* conflict otherwise.
SafeAction(b, t, w) ==
    IF b = t THEN "none"
    ELSE IF w = b \/ w = t THEN "update"
    ELSE "conflict"

\* A safe checkout of tree `target` against tree `baseline`.  A conflict on
\* any path fails the checkout before anything is written.
SafeCheckout(r, baseline, target) ==
    LET act(p) == SafeAction(baseline[p], target[p], r.wd[p])
    IN  IF \E p \in Paths : act(p) = "conflict"
        THEN [ok |-> FALSE, r |-> r]
        ELSE [ok |-> TRUE,
              r  |-> [r EXCEPT
                        !.wd    = [p \in Paths |-> IF act(p) = "update" THEN target[p] ELSE r.wd[p]],
                        !.index = [p \in Paths |-> IF act(p) = "update" THEN Clean(target[p])
                                                   ELSE r.index[p]]]]

\* git_checkout_head(repo, &opts) with opts.checkout_strategy =
\* GIT_CHECKOUT_SAFE and no baseline set: the target is HEAD's tree and the
\* baseline defaults to HEAD's tree as well, HEAD being read when the call
\* is made.
git_checkout_head(r) ==
    SafeCheckout(r, TreeOf(r, HeadCommit(r)), TreeOf(r, HeadCommit(r)))

\* git_merge_analysis(&analysis, &preference, repo, &their, 1): the analysis
\* of merging commit `their` into what HEAD resolves to.
git_merge_analysis(r, their) ==
    LET our  == HeadCommit(r)
        base == MergeBase(r.commits, our, their)
    IN  IF base # 0 /\ base = their THEN "up_to_date"
        ELSE IF base # 0 /\ base = our THEN "fastforward"
        ELSE "normal"

\* The three-way merge of one path that leaves our side at stage 0 beside
\* the conflict entries it writes.
MergePath_keeping_ours(b, o, t) ==
    IF o = t THEN Clean(o)
    ELSE IF b = o THEN Clean(t)
    ELSE IF b = t THEN Clean(o)
    ELSE [s0 |-> o, s1 |-> b, s2 |-> o, s3 |-> t]

\* The three-way merge of one path: the index entry it yields.
MergePath(b, o, t) ==
    IF o = t THEN Clean(o)
    ELSE IF b = o THEN Clean(t)
    ELSE IF b = t THEN Clean(o)
    ELSE [s0 |-> 0, s1 |-> b, s2 |-> o, s3 |-> t]

\* A git_merge that takes a call without heads as a merge of nothing and
\* succeeds, leaving the index and the working directory as they are.
git_merge_no_heads(r, their_heads) == [ok |-> TRUE, r |-> r]

\* git_merge(repo, their_heads, their_heads_len, NULL, NULL): the engine
\* merges exactly one head into HEAD and returns an error for any other
\* count.  With one head it refuses to touch paths that carry uncommitted
\* changes, writes the merge result (clean and conflict entries) to the
\* index and the clean results to the working directory.
git_merge(r, their_heads) ==
    IF Len(their_heads) # 1
    THEN [ok |-> FALSE, r |-> r]
    ELSE
        LET our    == HeadCommit(r)
            their  == their_heads[1]
            base   == MergeBase(r.commits, our, their)
            bt(p)  == IF base = 0 THEN 0 ELSE TreeOf(r, base)[p]
            ot(p)  == TreeOf(r, our)[p]
            e(p)   == MergePath(bt(p), ot(p), TreeOf(r, their)[p])
            chg(p) == e(p) # Clean(ot(p))
            dirty(p) == r.index[p] # Clean(ot(p)) \/ r.wd[p] # ot(p)
        IN  IF \E p \in Paths : chg(p) /\ dirty(p)
            THEN [ok |-> FALSE, r |-> r]
            ELSE [ok |-> TRUE,
                  r  |-> [r EXCEPT
                            !.index = [p \in Paths |-> IF chg(p) THEN e(p) ELSE r.index[p]],
                            !.wd    = [p \in Paths |-> IF chg(p) /\ ~IsConflicted(e(p))
                                                       THEN e(p).s0 ELSE r.wd[p]]]]

\* git_index_has_conflicts(index).
git_index_has_conflicts(r) == \E p \in Paths : IsConflicted(r.index[p])

\* git_index_write_tree(&tree_oid, index): the tree of the stage-0 entries.
git_index_write_tree(r) == [p \in Paths |-> r.index[p].s0]

\* A write to the object store that stores the object anew also when the
\* store already holds one with the same content.
git_odb_write_appending(cs, c) ==
    [id |-> Len(cs) + 1, commits |-> Append(cs, c)]

\* The write of an object to the engine's object store.  An object's id is
\* derived from its content: when the store holds the content already, the
\* write stores nothing and yields the id the content has.  (The model's id
\* of a content is the place at which it was first stored.)
git_odb_write(cs, c) ==
    IF \E i \in 1..Len(cs) : cs[i] = c
    THEN [id |-> CHOOSE i \in 1..Len(cs) : cs[i] = c, commits |-> cs]
    ELSE [id |-> Len(cs) + 1, commits |-> Append(cs, c)]

\* git_commit_create_v(&oid, repo, "HEAD", ..., tree, 1, parent): writes a
\* commit with the one given parent to the object store and moves the
\* reference HEAD resolves to (HEAD itself when detached) to it.
git_commit_create_v(r, tree, parent) ==
    LET w == git_odb_write(r.commits, [parents |-> <<parent>>, tree |-> tree])
    IN  [r EXCEPT
           !.commits = w.commits,
           !.refs    = IF r.head.sym THEN [r.refs EXCEPT ![r.head.name] = w.id] ELSE r.refs,
           !.head    = IF r.head.sym THEN r.head ELSE DetachedHead(w.id)]

\* The branches in the order of their reference names (refs/heads/feature,
\* refs/heads/main, refs/remotes/origin/main).
NameOrder == <<"feature", "main", "origin/main">>

\* git_branch_iterator_new(&it, repo, GIT_BRANCH_ALL) and git_branch_next
\* until it is over: the engine's reference iterator yields the references
\* stored as loose files first, in the order of their names, and after them
\* the references that are in the packed-refs file only, in the order of
\* their names.  `pk` is the set of the latter.
git_branch_iterator(pk) ==
    SelectSeq(NameOrder, LAMBDA b : b \notin pk) \o SelectSeq(NameOrder, LAMBDA b : b \in pk)

\* ------------------------------------------------------------ git::Branch

\* A normal return: no exception.
NoExc == ""

\* Branch::Branch(git_reference*, Repository*): the reference is peeled to
\* its commit once, and the commit is kept in _lastCommit.
NewBranch(r, b) == r.refs[b]

\* getLastCommit resolving the branch's reference anew instead of returning
\* the cached commit.
getLastCommit_resolving(h, b) == IF h[b] = NoHandle THEN NoHandle ELSE refs[b]

\* Branch::getLastCommit.
getLastCommit(h, b) == h[b]

\* Branch::getConflictingFiles: the conflict iterator's entries that have an
\* "ours" side, by path.
getConflictingFiles(r) ==
    {p \in Paths : IsConflicted(r.index[p]) /\ r.index[p].s2 # 0}

\* Branch::checkout(targetBranch) up to and including the update of HEAD:
\* the null checks and git_repository_set_head.
checkout_set_head(r, target, fail) ==
    IF target = NULL
    THEN [r |-> r, exc |-> "Target branch is null."]
    ELSE IF fail = "set_head"
    THEN [r |-> r, exc |-> "Could not update HEAD to target branch"]
    ELSE [r |-> git_repository_set_head(r, target), exc |-> NoExc]

\* Branch::checkout(targetBranch) from there: git_checkout_head with
\* GIT_CHECKOUT_SAFE.
checkout_checkout_head(r, fail) ==
    LET co == git_checkout_head(r)
    IN  IF fail = "checkout_head" \/ ~co.ok
        THEN [r |-> r, exc |-> "Checkout failed"]
        ELSE [r |-> co.r, exc |-> NoExc]

\* Branch::checkout(targetBranch).
checkout(r, target, fail) ==
    LET s == checkout_set_head(r, target, fail)
    IN  IF s.exc # NoExc THEN s ELSE checkout_checkout_head(s.r, fail)

\* Branch::performFastforward, the merge analysis: whether the cached last
\* commit of the target can be fast-forwarded to from HEAD.
ff_analysis(r, h, target) ==
    git_merge_analysis(r, getLastCommit(h, target)) = "fastforward"

\* Branch::performFastforward, the update of HEAD: git_repository_set_head
\* with the name of this Branch's own reference.
ff_set_head(r, self, fail) ==
    IF fail = "set_head"
    THEN [r |-> r, exc |-> "Fast-forward failed"]
    ELSE [r |-> git_repository_set_head(r, self), exc |-> NoExc]

\* Branch::performFastforward, the checkout of HEAD.
ff_checkout_head(r, fail) ==
    LET co == git_checkout_head(r)
    IN  IF fail = "checkout_head" \/ ~co.ok
        THEN [r |-> r, exc |-> "Fast-forward checkout failed"]
        ELSE [r |-> co.r, exc |-> NoExc]

\* Branch::performFastforward(targetBranch), called on the Branch of `self`.
performFastforward(r, h, self, target, fail) ==
    IF target = NULL
    THEN [r |-> r, ret |-> FALSE, exc |-> "Target branch is null."]
    ELSE IF ff_analysis(r, h, target)
    THEN
        LET s == ff_set_head(r, self, fail)
            c == ff_checkout_head(s.r, fail)
        IN  IF s.exc # NoExc THEN [r |-> s.r, ret |-> FALSE, exc |-> s.exc]
            ELSE [r |-> c.r, ret |-> c.exc = NoExc, exc |-> c.exc]
    ELSE [r |-> r, ret |-> FALSE, exc |-> NoExc]

\* The heads Branch::executeMergeCommit hands to git_merge: (nullptr, 0).
MergeHeads == <<>>

\* An executeMergeCommit that goes on to create the commit whatever
\* git_merge returned and without asking git_index_has_conflicts.
executeMergeCommit_unchecked(r) ==
    IF Len(r.commits) >= MaxCommits
    THEN [r |-> r, exc |-> "Failed to create merge commit"]
    ELSE [r   |-> git_commit_create_v(r, git_index_write_tree(r), HeadCommit(r)),
          exc |-> NoExc]

\* Branch::executeMergeCommit.  The object store is full at MaxCommits
\* commits; creating a commit then fails as an engine error.
executeMergeCommit(r) ==
    LET m == git_merge(r, MergeHeads)
    IN  IF ~m.ok
        THEN [r |-> r, exc |-> "Failed to prepare merge"]
        ELSE IF git_index_has_conflicts(m.r)
        THEN [r |-> m.r, exc |-> "Merge conflicts detected."]
        ELSE IF Len(m.r.commits) >= MaxCommits
        THEN [r |-> m.r, exc |-> "Failed to create merge commit"]
        ELSE [r   |-> git_commit_create_v(m.r, git_index_write_tree(m.r), HeadCommit(m.r)),
              exc |-> NoExc]

\* Branch::executeMerge after performFastforward returned false:
\* executeMergeCommit and the check of getConflictingFiles.
merge_commit(r) ==
    LET mc == executeMergeCommit(r)
    IN  IF mc.exc # NoExc THEN [r |-> mc.r, exc |-> mc.exc, path |-> ""]
        ELSE IF getConflictingFiles(mc.r) # {}
        THEN [r |-> mc.r, exc |-> "Merge completed with conflicts", path |-> ""]
        ELSE [r |-> mc.r, exc |-> NoExc, path |-> "commit"]

\* Branch::executeMerge(targetBranch), called on the Branch of `self`.  `path`
\* tells which way a normal return was reached.
executeMerge(r, h, self, target, fail) ==
    IF target = NULL
    THEN [r |-> r, exc |-> "Target branch is null.", path |-> ""]
    ELSE
        LET ff == performFastforward(r, h, self, target, fail)
        IN  IF ff.exc # NoExc THEN [r |-> ff.r, exc |-> ff.exc, path |-> ""]
            ELSE IF ff.ret THEN [r |-> ff.r, exc |-> NoExc, path |-> "fastforward"]
            ELSE merge_commit(ff.r)

\* ---------------------------------------------------------------- actions

\* The caller is between two calls, and no concurrent caller is in a call.
NoOp ==
    [op |-> "none", self |-> NULL, target |-> NULL, exc |-> NoExc, path |-> "",
     pre |-> <<>>, preHandles |-> <<>>]

\* The record of a call that has just ended: its arguments, its outcome and
\* the repository and the Branch objects as they were when it was made.
Called(op, self, target, exc, path) ==
    [op |-> op, self |-> self, target |-> target, exc |-> exc, path |-> path,
     pre |-> Repo, preHandles |-> handles]

\* A thread that is in no call.
NoCall ==
    [pc |-> "idle", self |-> NULL, target |-> NULL, exc |-> NoExc, path |-> "",
     pre |-> <<>>, raced |-> FALSE, n |-> 0]

Idle == last.op = "none" /\ \A t \in Threads : calls[t].pc = "idle"

Store(r) ==
    /\ commits' = r.commits
    /\ refs' = r.refs
    /\ head' = r.head
    /\ index' = r.index
    /\ wd' = r.wd

HasHandle(b) == handles[b] # NoHandle

\* Branch::getAllBranches: a Branch for every branch of the repository.
GetAllBranches ==
    /\ Idle
    /\ handles' = [b \in Branches |-> NewBranch(Repo, b)]
    /\ created' = [b \in Branches |-> refs[b]]
    /\ listing' = git_branch_iterator(packed)
    /\ UNCHANGED <<commits, refs, head, index, wd, last, calls>>
    /\ UNCHANGED <<packed, ownVars>>

\* this->checkout(target), on any constructed Branch.
Checkout(target, fail) ==
    /\ Idle
    /\ \E b \in Branches : HasHandle(b)
    /\ target # NULL => HasHandle(target)
    /\ LET res == checkout(Repo, target, fail)
       IN  /\ Store(res.r)
           /\ last' = Called("checkout", NULL, target, res.exc, "")
    /\ UNCHANGED <<handles, created, calls>>
    /\ UNCHANGED <<packed, listing, ownVars>>

\* self->executeMerge(target).
ExecuteMerge(self, target, fail) ==
    /\ Idle
    /\ HasHandle(self)
    /\ target # NULL => HasHandle(target)
    /\ LET res == executeMerge(Repo, handles, self, target, fail)
       IN  /\ Store(res.r)
           /\ last' = Called("executeMerge", self, target, res.exc, res.path)
    /\ UNCHANGED <<handles, created, calls>>
    /\ UNCHANGED <<packed, listing, ownVars>>

\* The caller has seen the outcome of its call and goes on.
Return ==
    /\ ~Idle
    /\ last' = NoOp
    /\ UNCHANGED <<commits, refs, head, index, wd, handles, created, calls>>
    /\ UNCHANGED <<packed, listing, ownVars>>

\* A commit made on a local branch outside git::Branch: it writes the
\* branch's content to one path or deletes the path, and advances the
\* branch.  On the branch HEAD is on it is a commit of that path from the
\* work tree, made when no merge is pending, which leaves the path's new
\* content in the working directory and the index; on any other branch it
\* moves the reference alone.
ExternalCommit(b, p, c) ==
    LET old == commits[refs[b]].tree
        here == head = SymHead(b)
        w == git_odb_write(commits, [parents |-> <<refs[b]>>, tree |-> [old EXCEPT ![p] = c]])
    IN  /\ Idle
        /\ c # old[p]
        /\ here => ~git_index_has_conflicts(Repo)
        /\ Len(commits) < MaxCommits
        /\ commits' = w.commits
        /\ refs' = [refs EXCEPT ![b] = w.id]
        /\ packed' = packed \ {b}
        /\ wd' = IF here THEN [wd EXCEPT ![p] = c] ELSE wd
        /\ index' = IF here THEN [index EXCEPT ![p] = Clean(c)] ELSE index
        /\ UNCHANGED <<head, handles, created, last, calls>>
        /\ UNCHANGED <<listing, ownVars>>

\* A commit without parents made on a local branch outside git::Branch, as
\* when a history that shares nothing with the repository's is fetched into
\* the branch: the branch's tip then has no common ancestor with the other
\* branches.  HEAD is on another branch.
ExternalRoot(b) ==
    LET w == git_odb_write(commits, [parents |-> <<>>,
                                     tree |-> [p \in Paths |-> IF p = "f" THEN Mark(b) ELSE 0]])
    IN
    /\ Idle
    /\ Len(commits) < MaxCommits
    /\ head # SymHead(b)
    /\ commits' = w.commits
    /\ refs' = [refs EXCEPT ![b] = w.id]
    /\ packed' = packed \ {b}
    /\ UNCHANGED <<head, index, wd, handles, created, last, calls>>
    /\ UNCHANGED <<listing, ownVars>>

\* A merge of a branch into HEAD's branch started outside git::Branch with
\* the engine's git_merge and one head, which stopped on conflicts: the
\* repository is left mid-merge, the conflict entries in the index.
ExternalMerge(b) ==
    LET m == git_merge(Repo, <<refs[b]>>)
    IN  /\ Idle
        /\ head.sym
        /\ m.ok
        /\ git_index_has_conflicts(m.r)
        /\ ~git_index_has_conflicts(Repo)
        /\ Store(m.r)
        /\ UNCHANGED <<handles, created, last, calls, packed, listing, ownVars>>

\* The user edits, creates or deletes a file of the working directory.
UserEdit(p, c) ==
    /\ Idle
    /\ wd[p] # c
    /\ wd' = [wd EXCEPT ![p] = c]
    /\ UNCHANGED <<commits, refs, head, index, handles, created, last, calls>>
    /\ UNCHANGED <<packed, listing, ownVars>>

Init ==
    /\ commits = <<[parents |-> <<>>, tree |-> RootTree]>>
    /\ refs = [b \in Branches |-> 1]
    /\ head = SymHead("main")
    /\ index = CleanIndex(commits[1].tree)
    /\ wd = commits[1].tree
    /\ handles = [b \in Branches |-> NoHandle]
    /\ created = [b \in Branches |-> NoHandle]
    /\ last = NoOp
    /\ calls = [t \in Threads |-> NoCall]
    /\ packed = {}
    /\ listing = <<>>
    /\ objs = [o \in Objects |-> NoObject]
    /\ heap = [h \in RefHandles |-> "unused"]

Next ==
    \/ GetAllBranches
    \/ \E target \in Branches \cup {NULL}, fail \in FailPoints : Checkout(target, fail)
    \/ \E self \in Branches, target \in Branches \cup {NULL}, fail \in FailPoints :
           ExecuteMerge(self, target, fail)
    \/ \E b \in LocalBranches, p \in Paths : \E c \in CommitContents(b) : ExternalCommit(b, p, c)
    \/ \E b \in LocalBranches : ExternalRoot(b)
    \/ \E b \in Branches : ExternalMerge(b)
    \/ \E p \in Paths, c \in EditContents : UserEdit(p, c)
    \/ Return

Spec == Init /\ [][Next]_vars

\* The same callers and the same repository without edits of the working
\* directory that are not committed.  No engine call made by Branch.cpp
\* reads the working directory to decide what it does with the commits, the
\* references, HEAD or the index: git_checkout_head compares HEAD's tree
\* with itself, and git_merge fails before it looks at any file.
NextCommitted ==
    \/ GetAllBranches
    \/ \E target \in Branches \cup {NULL}, fail \in FailPoints : Checkout(target, fail)
    \/ \E self \in Branches, target \in Branches \cup {NULL}, fail \in FailPoints :
           ExecuteMerge(self, target, fail)
    \/ \E b \in LocalBranches, p \in Paths : \E c \in CommitContents(b) : ExternalCommit(b, p, c)
    \/ \E b \in LocalBranches : ExternalRoot(b)
    \/ \E b \in Branches : ExternalMerge(b)
    \/ Return

SpecCommitted == Init /\ [][NextCommitted]_vars



\* --------------------------------------------------- concurrent callers
\* Branch.cpp takes no lock, so two callers' engine calls on one repository
\* interleave call by call.  Each action below is one engine call of
\* checkout or executeMerge; an engine call itself is atomic, and none fails
\* for outside reasons here.

Call(t) == calls[t]

Goto(t, pc) == calls' = [calls EXCEPT ![t].pc = pc]

Finish(t, exc, path) ==
    calls' = [calls EXCEPT ![t].pc = "done", ![t].exc = exc, ![t].path = path]

\* Thread t calls checkout(target) on a Branch.
CallCheckout(t, target) ==
    /\ Call(t).pc = "idle"
    /\ HasHandle(target)
    /\ Call(t).n < MaxCalls
    /\ calls' = [calls EXCEPT ![t] = [NoCall EXCEPT !.pc = "co_set_head", !.target = target,
                                                   !.pre = Repo, !.n = Call(t).n + 1]]
    /\ UNCHANGED <<commits, refs, head, index, wd, handles, created, last>>
    /\ UNCHANGED <<packed, listing, ownVars>>

\* checkout: git_repository_set_head.
CoSetHead(t) ==
    /\ Call(t).pc = "co_set_head"
    /\ LET s == checkout_set_head(Repo, Call(t).target, "none")
       IN  /\ Store(s.r)
           /\ IF s.exc = NoExc THEN Goto(t, "co_checkout_head") ELSE Finish(t, s.exc, "")
    /\ UNCHANGED <<handles, created, last>>
    /\ UNCHANGED <<packed, listing, ownVars>>

\* checkout: git_checkout_head.
CoCheckoutHead(t) ==
    /\ Call(t).pc = "co_checkout_head"
    /\ LET s == checkout_checkout_head(Repo, "none")
       IN  /\ Store(s.r)
           /\ Finish(t, s.exc, "")
    /\ UNCHANGED <<handles, created, last>>
    /\ UNCHANGED <<packed, listing, ownVars>>

\* Thread t calls self->executeMerge(target).
CallMerge(t, self, target) ==
    /\ Call(t).pc = "idle"
    /\ HasHandle(self)
    /\ HasHandle(target)
    /\ Call(t).n < MaxCalls
    /\ calls' = [calls EXCEPT ![t] = [NoCall EXCEPT !.pc = "mg_analysis", !.self = self,
                                                   !.target = target, !.pre = Repo,
                                                   !.n = Call(t).n + 1]]
    /\ UNCHANGED <<commits, refs, head, index, wd, handles, created, last>>
    /\ UNCHANGED <<packed, listing, ownVars>>

\* Another thread has read the same branch for a fast-forward of it and has
\* not yet updated anything.
Racing(t) ==
    {u \in Threads \ {t} : Call(u).pc = "mg_set_head" /\ Call(u).self = Call(t).self}

\* performFastforward: the merge analysis, which reads HEAD and the target's
\* cached commit.  `raced` marks two threads that have both done this read
\* for the same branch before either went on.
MgAnalysis(t) ==
    /\ Call(t).pc = "mg_analysis"
    /\ IF ff_analysis(Repo, handles, Call(t).target)
       THEN calls' = [u \in Threads |->
                        IF u = t THEN [calls[u] EXCEPT !.pc = "mg_set_head",
                                                       !.raced = Racing(t) # {}]
                        ELSE IF u \in Racing(t) THEN [calls[u] EXCEPT !.raced = TRUE]
                        ELSE calls[u]]
       ELSE Goto(t, "mg_commit")
    /\ UNCHANGED <<commits, refs, head, index, wd, handles, created, last>>
    /\ UNCHANGED <<packed, listing, ownVars>>

\* performFastforward: git_repository_set_head.
MgSetHead(t) ==
    /\ Call(t).pc = "mg_set_head"
    /\ LET s == ff_set_head(Repo, Call(t).self, "none")
       IN  /\ Store(s.r)
           /\ IF s.exc = NoExc THEN Goto(t, "mg_checkout_head") ELSE Finish(t, s.exc, "")
    /\ UNCHANGED <<handles, created, last>>
    /\ UNCHANGED <<packed, listing, ownVars>>

\* performFastforward: git_checkout_head, and the return through executeMerge.
MgCheckoutHead(t) ==
    /\ Call(t).pc = "mg_checkout_head"
    /\ LET s == ff_checkout_head(Repo, "none")
       IN  /\ Store(s.r)
           /\ Finish(t, s.exc, IF s.exc = NoExc THEN "fastforward" ELSE "")
    /\ UNCHANGED <<handles, created, last>>
    /\ UNCHANGED <<packed, listing, ownVars>>

\* executeMerge after performFastforward returned false.  git_merge is the
\* first engine call of executeMergeCommit and the only one it reaches.
MgCommit(t) ==
    /\ Call(t).pc = "mg_commit"
    /\ LET s == merge_commit(Repo)
       IN  /\ Store(s.r)
           /\ Finish(t, s.exc, s.path)
    /\ UNCHANGED <<handles, created, last>>
    /\ UNCHANGED <<packed, listing, ownVars>>

\* The caller has seen the outcome of its call.
ThreadReturn(t) ==
    /\ Call(t).pc = "done"
    /\ calls' = [calls EXCEPT ![t] = [NoCall EXCEPT !.n = Call(t).n]]
    /\ UNCHANGED <<commits, refs, head, index, wd, handles, created, last>>
    /\ UNCHANGED <<packed, listing, ownVars>>

NextConc ==
    \/ GetAllBranches
    \/ \E b \in LocalBranches, p \in Paths : \E c \in CommitContents(b) : ExternalCommit(b, p, c)
    \/ \E t \in Threads, target \in Branches : CallCheckout(t, target)
    \/ \E t \in Threads : CoSetHead(t)
    \/ \E t \in Threads : CoCheckoutHead(t)
    \/ \E t \in Threads, self \in Branches, target \in Branches : CallMerge(t, self, target)
    \/ \E t \in Threads : MgAnalysis(t)
    \/ \E t \in Threads : MgSetHead(t)
    \/ \E t \in Threads : MgCheckoutHead(t)
    \/ \E t \in Threads : MgCommit(t)
    \/ \E t \in Threads : ThreadReturn(t)

SpecConc == Init /\ [][NextConc]_vars

\* ------------------------------------------------------ branch enumeration
\* What getAllBranches returns depends on how the engine stores the
\* references, which changes outside Branch.cpp: packing the references
\* (as a garbage collection does) moves every reference into the packed-refs
\* file, and a later update of a branch writes its reference as a loose file
\* again.

\* The references are packed.
PackRefs ==
    /\ Idle
    /\ packed # Branches
    /\ packed' = Branches
    /\ UNCHANGED <<repoVars, listing, ownVars>>

NextList ==
    \/ GetAllBranches
    \/ \E b \in LocalBranches, p \in Paths : \E c \in CommitContents(b) : ExternalCommit(b, p, c)
    \/ PackRefs

SpecList == Init /\ [][NextList]_vars

\* ------------------------------------------------- Branch objects in memory
\* The special member functions of git::Branch over the git_reference
\* handles the objects hold in _branch.  A moved-from object stays alive
\* until its own destructor runs, as every C++ object does.

\* git_reference_free(ref): a no-op on a null pointer; a second free of a
\* handle is recorded as such.
git_reference_free(hp, h) ==
    IF h = NullRef THEN hp
    ELSE [hp EXCEPT ![h] = IF hp[h] = "live" THEN "freed" ELSE "freed_twice"]

Live(o) == objs[o].live

Unused(h) == heap[h] = "unused"

\* Branch::Branch(git_reference*, Repository*), as Branch::create calls it
\* from getAllBranches with a reference the iterator has just handed out:
\* the object takes the handle.
Construct(o, h) ==
    /\ ~Live(o)
    /\ Unused(h)
    /\ heap' = [heap EXCEPT ![h] = "live"]
    /\ objs' = [objs EXCEPT ![o] = [live |-> TRUE, branch |-> h]]
    /\ UNCHANGED <<repoVars, packed, listing>>

\* Branch::Branch(const Branch& other): _branch is a duplicate of
\* other._branch made by git_reference_dup.
CopyConstruct(o, other, h) ==
    /\ ~Live(o)
    /\ Live(other)
    /\ Unused(h)
    /\ heap' = [heap EXCEPT ![h] = "live"]
    /\ objs' = [objs EXCEPT ![o] = [live |-> TRUE, branch |-> h]]
    /\ UNCHANGED <<repoVars, packed, listing>>

\* Branch::Branch(Branch&& other): _branch(other._branch); other._branch is
\* left as it is.
MoveConstruct(o, other) ==
    /\ ~Live(o)
    /\ Live(other)
    /\ objs' = [objs EXCEPT ![o] = [live |-> TRUE, branch |-> objs[other].branch]]
    /\ UNCHANGED <<repoVars, packed, listing, heap>>

\* Branch::Branch(const Branch& other, Repository* repo):
\* _branch(other._branch), without a duplicate.
RebindCopyConstruct(o, other) ==
    /\ ~Live(o)
    /\ Live(other)
    /\ objs' = [objs EXCEPT ![o] = [live |-> TRUE, branch |-> objs[other].branch]]
    /\ UNCHANGED <<repoVars, packed, listing, heap>>

\* Branch::Branch(Branch&& other, Repository* repo): _branch(other._branch).
RebindMoveConstruct(o, other) ==
    /\ ~Live(o)
    /\ Live(other)
    /\ objs' = [objs EXCEPT ![o] = [live |-> TRUE, branch |-> objs[other].branch]]
    /\ UNCHANGED <<repoVars, packed, listing, heap>>

\* Branch::operator=(const Branch& other): nothing on self-assignment;
\* else a temporary copy of other (a duplicate handle) is swapped in, and the
\* temporary's destructor frees the handle this object held.
CopyAssign(o, other, h) ==
    /\ Live(o)
    /\ Live(other)
    /\ o # other
    /\ Unused(h)
    /\ heap' = git_reference_free([heap EXCEPT ![h] = "live"], objs[o].branch)
    /\ objs' = [objs EXCEPT ![o].branch = h]
    /\ UNCHANGED <<repoVars, packed, listing>>

\* Branch::operator=(Branch&& other): nothing on self-assignment; else a
\* temporary move-constructed from other (the same handle) is swapped in, and
\* the temporary's destructor frees the handle this object held.
MoveAssign(o, other) ==
    /\ Live(o)
    /\ Live(other)
    /\ o # other
    /\ heap' = git_reference_free(heap, objs[o].branch)
    /\ objs' = [objs EXCEPT ![o].branch = objs[other].branch]
    /\ UNCHANGED <<repoVars, packed, listing>>

\* Branch::~Branch(): git_reference_free(_branch).
Destroy(o) ==
    /\ Live(o)
    /\ heap' = git_reference_free(heap, objs[o].branch)
    /\ objs' = [objs EXCEPT ![o] = NoObject]
    /\ UNCHANGED <<repoVars, packed, listing>>

NextOwn ==
    \/ \E o \in Objects, h \in RefHandles : Construct(o, h)
    \/ \E o, other \in Objects, h \in RefHandles : CopyConstruct(o, other, h)
    \/ \E o, other \in Objects : MoveConstruct(o, other)
    \/ \E o, other \in Objects : RebindCopyConstruct(o, other)
    \/ \E o, other \in Objects : RebindMoveConstruct(o, other)
    \/ \E o, other \in Objects, h \in RefHandles : CopyAssign(o, other, h)
    \/ \E o, other \in Objects : MoveAssign(o, other)
    \/ \E o \in Objects : Destroy(o)

SpecOwn == Init /\ [][NextOwn]_vars

\* ------------------------------------------------------- claims, sequential

\* The vocabulary of the claims, read off the record of the last call.
MergeCalled == last.op = "executeMerge" /\ last.target # NULL

CheckoutCalled == last.op = "checkout" /\ last.target # NULL

\* The tips of the two branches of the last call when it was made.
PreTipA == last.pre.refs[last.self]

PreTipB == last.pre.refs[last.target]

IsAncestor(cs, a, b) == a \in Ancestors(cs, b)

FastForwarded == last.exc = NoExc /\ last.path = "fastforward"

Merged == last.exc = NoExc /\ last.path = "commit"

ConflictedAndAborted ==
    last.exc \in {"Merge conflicts detected.", "Merge completed with conflicts"}

\* The call was made in the plainest circumstances: by a Branch of a local
\* branch that HEAD was on, with Branch objects whose cached commits were the
\* tips, and with the index and the working directory holding HEAD's tree.
PlainCall ==
    /\ last.pre.head = SymHead(last.self)
    /\ \A b \in Branches : last.preHandles[b] = last.pre.refs[b]
    /\ last.pre.index = CleanIndex(TreeOf(last.pre, HeadCommit(last.pre)))
    /\ last.pre.wd = TreeOf(last.pre, HeadCommit(last.pre))

\* The merge base of the two tips and the paths each side changed from it.
PreBase == MergeBase(last.pre.commits, PreTipA, PreTipB)

BaseTree == IF PreBase = 0 THEN [p \in Paths |-> 0] ELSE TreeOf(last.pre, PreBase)

OursTree == TreeOf(last.pre, PreTipA)

TheirsTree == TreeOf(last.pre, PreTipB)

ChangedOurs == {p \in Paths : OursTree[p] # BaseTree[p]}

ChangedTheirs == {p \in Paths : TheirsTree[p] # BaseTree[p]}

Divergent == PreBase # 0 /\ PreBase # PreTipA /\ PreBase # PreTipB

ConflictPaths == {p \in ChangedOurs \cap ChangedTheirs : OursTree[p] # TheirsTree[p]}

\* C1 as stated: merging B into A when A's tip is a strict ancestor of B's
\* tip returns FastForwarded, leaves A's reference at the commit that was B's
\* tip, and stores no new commit.  (Stated for calls made in the plainest
\* circumstances; it fails there already.)
C1_FastForwardMovesTip ==
    (MergeCalled /\ PlainCall /\ PreTipA # PreTipB
        /\ IsAncestor(last.pre.commits, PreTipA, PreTipB))
    => (FastForwarded /\ refs[last.self] = PreTipB /\ commits = last.pre.commits)

\* C2 as stated: merging B into A when B's tip is an ancestor of A's tip
\* (B = A included) returns FastForwarded and changes no commit, reference,
\* HEAD or index entry.
C2_UpToDateIsNoOp ==
    (MergeCalled /\ PlainCall /\ IsAncestor(last.pre.commits, PreTipB, PreTipA))
    => (FastForwarded /\ commits = last.pre.commits /\ refs = last.pre.refs
            /\ head = last.pre.head /\ index = last.pre.index)

\* C3 as stated: merging divergent branches whose edits touch disjoint paths
\* returns Merged, with a new commit whose tree holds both sides' edits and
\* whose parents are A's and B's former tips in that order, and A's reference
\* is advanced to it.
C3_DisjointEditsMerge ==
    (MergeCalled /\ PlainCall /\ Divergent /\ ChangedOurs \cap ChangedTheirs = {})
    => /\ Merged
       /\ Len(commits) = Len(last.pre.commits) + 1
       /\ commits[Len(commits)].parents = <<PreTipA, PreTipB>>
       /\ commits[Len(commits)].tree =
              [p \in Paths |-> IF p \in ChangedTheirs THEN TheirsTree[p] ELSE OursTree[p]]
       /\ refs[last.self] = Len(commits)

\* C4 as stated: merging branches that changed the same path to different
\* content returns ConflictedAndAborted with exactly the conflicting paths,
\* and the index holds for each the base, ours and theirs entries and no
\* stage-0 entry.
C4_ConflictReported ==
    (MergeCalled /\ PlainCall /\ Divergent /\ ConflictPaths # {})
    => /\ ConflictedAndAborted
       /\ {p \in Paths : IsConflicted(index[p])} = ConflictPaths
       /\ \A p \in ConflictPaths :
              index[p] = [s0 |-> 0, s1 |-> BaseTree[p], s2 |-> OursTree[p], s3 |-> TheirsTree[p]]

\* C5 as stated: a three-way merge with a non-empty conflict set stores no
\* commit, moves no branch reference and leaves the conflict entries in the
\* index.
C5_ConflictLeavesIndex ==
    (MergeCalled /\ PlainCall /\ Divergent /\ ConflictPaths # {})
    => /\ commits = last.pre.commits
       /\ refs = last.pre.refs
       /\ \A p \in ConflictPaths : IsConflicted(index[p]) /\ index[p].s0 = 0

C9_CheckoutMaterializes ==
    (CheckoutCalled /\ last.exc = NoExc /\ last.target \in LocalBranches
        /\ last.pre.index = CleanIndex(TreeOf(last.pre, HeadCommit(last.pre)))
        /\ last.pre.wd = TreeOf(last.pre, HeadCommit(last.pre)))
    => /\ head = SymHead(last.target)
       /\ wd = TreeOf(Repo, refs[last.target])
       /\ index = CleanIndex(TreeOf(Repo, refs[last.target]))

\* The checkout of the last call had to overwrite or remove a tracked file
\* with a local modification the index does not hold.
WouldDiscard ==
    \E p \in Paths :
        /\ last.pre.index[p].s0 # 0
        /\ last.pre.wd[p] # last.pre.index[p].s0
        /\ TreeOf(last.pre, last.pre.refs[last.target])[p] # last.pre.wd[p]
        /\ TreeOf(last.pre, last.pre.refs[last.target])[p]
               # TreeOf(last.pre, HeadCommit(last.pre))[p]

\* C10 as stated: a safe checkout that would overwrite or remove a locally
\* modified tracked file fails and keeps the local modifications.
C10_DirtyCheckoutFails ==
    (CheckoutCalled /\ WouldDiscard) => (last.exc = "Checkout failed" /\ wd = last.pre.wd)

\* The index and the working directory held exactly HEAD's tree when the
\* last call was made: no dirty pre-existing state.
PreClean ==
    /\ last.pre.index = CleanIndex(TreeOf(last.pre, HeadCommit(last.pre)))
    /\ last.pre.wd = TreeOf(last.pre, HeadCommit(last.pre))

\* The tree T the checkout of the last call had to materialize: the tree of
\* the target branch's tip.
CheckedOutTree == TreeOf(last.pre, last.pre.refs[last.target])

\* C11 as stated: the round trip.  After a successful checkout of tree T
\* into a working directory with no dirty state, the working directory read
\* back equals T: every entry of T is there with T's content, and every path
\* that was in the working directory and is absent from T has been removed.
C11_CheckoutRoundTrip ==
    (CheckoutCalled /\ last.exc = NoExc /\ PreClean)
    => /\ \A p \in Paths : CheckedOutTree[p] # 0 => wd[p] = CheckedOutTree[p]
       /\ \A p \in Paths : (last.pre.wd[p] # 0 /\ CheckedOutTree[p] = 0) => wd[p] = 0

\* The call was made with Branch objects constructed after the last move of
\* any reference: their cached commits were the tips.
FreshHandles == \A b \in Branches : last.preHandles[b] = last.pre.refs[b]

\* C12 as stated: merging two branches whose tips have no common ancestor
\* fails (any exception counts as the failure), and the failure leaves the
\* commits, the references, HEAD and the index as they were.
C12_UnrelatedFails ==
    (MergeCalled /\ FreshHandles /\ PreBase = 0)
    => /\ last.exc # NoExc
       /\ commits = last.pre.commits
       /\ refs = last.pre.refs
       /\ head = last.pre.head
       /\ index = last.pre.index

\* getAllBranches has returned a vector.
Listed == listing # <<>>

\* C13 as stated: the enumeration returns every branch exactly once, in the
\* lexicographic order of the branch names, whatever the order in which the
\* branches were last updated.
C13_ListingIsLexicographic ==
    Listed
    => /\ Len(listing) = Cardinality(Branches)
       /\ {listing[i] : i \in 1..Len(listing)} = Branches
       /\ listing = NameOrder

DeleteModifyPaths ==
    {p \in Paths :
        /\ BaseTree[p] # 0
        /\ \/ OursTree[p] = 0 /\ TheirsTree[p] \notin {0, BaseTree[p]}
           \/ TheirsTree[p] = 0 /\ OursTree[p] \notin {0, BaseTree[p]}}

\* C15 as stated: in a three-way merge, a path one side deleted and the
\* other side modified is a conflict whichever side deleted it: the merge
\* ends as conflicted, the path is among the conflicting paths the Branch
\* reports, and the index holds conflict-stage entries and no stage-0 entry
\* for it.
C15_DeleteModifyReported ==
    (MergeCalled /\ PlainCall /\ Divergent /\ DeleteModifyPaths # {})
    => /\ ConflictedAndAborted
       /\ DeleteModifyPaths \subseteq getConflictingFiles(Repo)
       /\ \A p \in DeleteModifyPaths : IsConflicted(index[p]) /\ index[p].s0 = 0

\* A step that changes or removes no object of the store.
AppendOnlyStep ==
    /\ Len(commits') >= Len(commits)
    /\ \A i \in 1..Len(commits) : commits'[i] = commits[i]

\* No content is stored under two ids.
ContentAddressed ==
    \A i, j \in 1..Len(commits) : commits[i] = commits[j] => i = j

C17_MergeMovesOnlyCurrent ==
    MergeCalled
    => \A b \in Branches \ {last.self} : refs[b] = last.pre.refs[b]

\* A merge has returned normally that was called while HEAD was on a branch
\* other than the current one.
C17_Witness ==
    /\ MergeCalled
    /\ last.exc = NoExc
    /\ last.pre.head.sym
    /\ last.pre.head.name # last.self

\* C18 as stated: when a checkout fails, HEAD still points to what it
\* pointed to before the call, and the index and the working directory are
\* unchanged: HEAD is never left on the target while the index and the
\* working directory hold the previous branch's content.
C18_FailedCheckoutKeepsHead ==
    (CheckoutCalled /\ last.exc # NoExc)
    => /\ head = last.pre.head
       /\ index = last.pre.index
       /\ wd = last.pre.wd

\* C19: executeMerge returns normally only after a fast-forward or with an
\* index that holds no conflict entries, and it stores no commit when the
\* index has conflicts.
C19_NormalReturnHasNoConflicts ==
    /\ (MergeCalled /\ last.exc = NoExc)
           => (last.path = "fastforward" \/ ~git_index_has_conflicts(Repo))
    /\ (MergeCalled /\ git_index_has_conflicts(Repo)) => commits = last.pre.commits

\* executeMerge has been called on a repository in which the index held
\* conflict entries and the object store had room for a commit.
C19_Witness ==
    /\ MergeCalled
    /\ last.path # "fastforward"
    /\ git_index_has_conflicts(Repo)
    /\ Len(last.pre.commits) < MaxCommits

\* C20 as stated: every reference handle is freed exactly once.  No two
\* live Branch objects hold the same handle, no handle has been freed twice,
\* and no live Branch holds a handle that has been freed.
C20_HandleFreedOnce ==
    /\ \A o, other \in Objects :
           (o # other /\ Live(o) /\ Live(other) /\ objs[o].branch # NullRef)
           => objs[o].branch # objs[other].branch
    /\ \A h \in RefHandles : heap[h] # "freed_twice"
    /\ \A o \in Objects :
           (Live(o) /\ objs[o].branch # NullRef) => heap[objs[o].branch] = "live"

\* ------------------------------------------------------- claims, concurrent

\* C6 as stated: of two callers that both read a branch at the same tip and
\* then both update it, at most one succeeds (the other gets
\* ConcurrentUpdate).  The update of Branch.cpp is the fast-forward of
\* performFastforward; a caller succeeds when its executeMerge returns
\* normally.
C6_AtMostOneUpdateSucceeds ==
    \A t, u \in Threads :
        (t # u /\ Call(t).raced /\ Call(u).raced /\ Call(t).self = Call(u).self)
        => ~(Call(t).pc = "done" /\ Call(t).exc = NoExc
               /\ Call(u).pc = "done" /\ Call(u).exc = NoExc)

\* The index holds exactly the tree of the commit HEAD resolves to.
IndexMatchesHead(r) == r.index = CleanIndex(TreeOf(r, HeadCommit(r)))

\* C7 as stated: the HEAD update and the index write of one checkout or merge
\* are atomic: while a call that found the index matching HEAD has moved HEAD
\* and has not returned, no state in which the index does not match HEAD is
\* there for another caller to see.
C7_NoTornUpdate ==
    \A t \in Threads :
        (Call(t).pc \in {"co_checkout_head", "mg_checkout_head"}
            /\ IndexMatchesHead(Call(t).pre)
            /\ head # Call(t).pre.head)
        => IndexMatchesHead(Repo)

====
